---- MODULE Spec2Model ----
(***************************************************************************)
(* Cache-aside layer of the users / passengers / riders API.               *)
(*                                                                         *)
(* Strings are modelled as sequences of tokens split at every '_', so that *)
(* an f-string is a concatenation and two keys are equal exactly when the  *)
(* strings are equal.  Python values that reach get_cache_key are tagged   *)
(* records (None, int, str) so that truthiness and formatting are computed *)
(* as Python computes them.                                                *)
(*                                                                         *)
(* Spec takes the requests one after the other, each handler as one step.  *)
(* SpecConc takes one read and one write step by step, so that they        *)
(* overlap.  SpecWarm is Spec with runs of the warm_cache command,         *)
(* SpecFault has cache calls that raise, SpecReaders two overlapping       *)
(* reads, SpecKeys the key functions on their own.                         *)
(* SpecWarmRace takes the warm_cache command one cache call at a time,     *)
(* with whole writes in between.  SpecBuilder applies cache_key_builder to *)
(* its inputs, SpecDeco calls the decorated functions and CacheContext.    *)
(***************************************************************************)
EXTENDS Integers, Sequences, FiniteSets, TLC

\* ------------------------------------------------------------------ bounds
\* Largest primary key the record provider hands out per kind.
MaxId == 2
\* Number of distinct values of a passenger's own fields.
MaxVal == 2
\* Records that may be created in one behaviour, over all kinds.
MaxRecords == 2
\* settings.CACHE_TTL, in clock ticks.
CACHE_TTL == 2

Kinds == {"user", "passenger", "rider"}
Ids == 1..MaxId
Vals == 1..MaxVal
\* Values of User.user_type that the serializers filter on.
UserTypes == {"passenger", "rider"}

\* ---------------------------------------------------------- Python values
PyNone == [t |-> "none", i |-> 0, s |-> <<>>]
PyInt(n) == [t |-> "int", i |-> n, s |-> <<>>]
PyStr(x) == [t |-> "str", i |-> 0, s |-> x]

\* bool(x) as used by `if identifier:`.
Truthy(x) == \/ x.t = "int" /\ x.i # 0
             \/ x.t = "str" /\ x.s # <<>>

\* The text an f-string puts for {x}.
Format(x) == IF x.t = "int" THEN <<ToString(x.i)>>
             ELSE IF x.t = "str" THEN x.s
             ELSE <<"None">>

\* ------------------------------------------------------------- key policy
get_cache_key(prefix, identifier) ==
    IF Truthy(identifier) THEN prefix \o <<"_">> \o Format(identifier)
    ELSE prefix

\* The literals 'user_list', 'passenger_list', 'rider_list'.
ListPrefix(k) == <<k, "_", "list">>
\* One literal pasted into the detail calls of all three viewsets.
DetailPrefix_User(k) == <<"user">>
\* The literals 'user', 'passenger', 'rider'.
DetailPrefix(k) == <<k>>

\* Keys as the views compute them.
ViewListKey(k) == get_cache_key(ListPrefix(k), PyNone)
ViewDetailKey(k, identifier) == get_cache_key(DetailPrefix(k), identifier)

\* Keys as the signal handlers write them: 'user_list', f'user_{instance.id}'.
SignalListKey(k) == <<k, "_", "list">>
SignalDetailKey(k, id) == <<k, "_">> \o Format(PyInt(id))

\* ---------------------------------------------------------------- cache
\* The cache is a partial function from keys to entries [value, ttl]:
\* ttl is the number of ticks the entry still has to live.
cache_get_present(c, key) == key \in DOMAIN c

cache_set(c, key, value, timeout) ==
    [x \in (DOMAIN c) \cup {key} |->
        IF x = key THEN [value |-> value, ttl |-> timeout] ELSE c[x]]

cache_delete(c, key) == [x \in (DOMAIN c) \ {key} |-> c[x]]

\* Passing of one unit of time: the backend drops what has expired.
cache_age(c) ==
    [x \in {y \in DOMAIN c : c[y].ttl > 1} |->
        [value |-> c[x].value, ttl |-> c[x].ttl - 1]]

EmptyCache == [x \in {} |-> 0]

\* --------------------------------------------------------- record provider
\* db[k] is a partial function from ids to records.  All records have the
\* same shape: a User has user_type, a Passenger has user and data, a Rider
\* has user.
UserRec(t) == [user_type |-> t, user |-> 0, data |-> 0]
PassengerRec(u, v) == [user_type |-> "", user |-> u, data |-> v]
RiderRec(u) == [user_type |-> "", user |-> u, data |-> 0]

EmptyTable == [x \in {} |-> UserRec("")]

\* UserSerializer(user).data
UserSerializer(d, i) ==
    [id |-> i, user_type |-> d["user"][i].user_type, data |-> 0, user |-> <<>>]

\* PassengerSerializer / RiderSerializer: the user is nested, read only.
NestedSerializer(d, k, i) ==
    [id |-> i, user_type |-> "", data |-> d[k][i].data,
     user |-> <<UserSerializer(d, d[k][i].user)>>]

Serialize(d, k, i) ==
    IF k = "user" THEN UserSerializer(d, i) ELSE NestedSerializer(d, k, i)

\* The ids of a table in ascending order.
RECURSIVE IdsFrom(_, _)
IdsFrom(tbl, i) ==
    IF i > MaxId THEN <<>>
    ELSE (IF i \in DOMAIN tbl THEN <<i>> ELSE <<>>) \o IdsFrom(tbl, i + 1)

\* response.data of the two read handlers.
DetailPayload(d, k, i) == [many |-> FALSE, items |-> <<Serialize(d, k, i)>>]
ListPayload(d, k) ==
    LET ids == IdsFrom(d[k], 1)
    IN [many |-> TRUE, items |-> [n \in 1..Len(ids) |-> Serialize(d, k, ids[n])]]

NoPayload == [many |-> FALSE, items |-> <<>>]

\* The pk of a detail URL is text; the lookup finds a record only when the
\* text is the decimal form of an existing id.
PkToId(tbl, pk) ==
    IF \E i \in DOMAIN tbl : pk = Format(PyInt(i))
    THEN CHOOSE i \in DOMAIN tbl : pk = Format(PyInt(i))
    ELSE 0

\* Path segments a detail request can carry.
Pks == {Format(PyInt(i)) : i \in Ids} \cup {<<"list">>}


\* ------------------------------------------------------------------ state
VARIABLES
    db,       \* the record provider: kind -> (id -> record)
    nextId,   \* the next primary key of each kind (keys are never reused)
    cache,    \* the key-value cache
    last,     \* the request handled last and what its caller received
    snap,     \* per kind, what list answered since the last write of the
              \* kind and the last expiry of its list key
    rd,       \* the read request in flight, when requests overlap
    wr,       \* the write request in flight, when requests overlap
    stale,    \* keys whose entry was set before a save that the request in
              \* wr has made since
    rds,      \* two read requests in flight, when reads overlap
    kreq,     \* a call of a key function: its arguments
    kres,     \* ... and its result, once computed
    wm        \* the run of warm_cache in flight, when it overlaps writes

vars == <<db, nextId, cache, last, snap, rd, wr, stale, rds, kreq, kres, wm>>

\* What only the two-reader steps, the key-function steps and the steps of
\* the warmer change.
aux == <<rds, kreq, kres, wm>>

\* The state of the step-by-step handlers.
conc == <<rd, wr, stale, aux>>

\* old: the record read by the provider call has been written since.
NoRead == [pc |-> "idle", op |-> "none", kind |-> "user", pk |-> <<>>, data |-> NoPayload,
           old |-> FALSE]
NoWrite == [pc |-> "idle", op |-> "none", kind |-> "user", id |-> 0,
            rec |-> [user_type |-> "", user |-> 0, data |-> 0], cleared |-> {}]

\* How far the requests made so far follow the sequence: create a user
\* while the cache is empty, list the users, retrieve that user, retrieve it
\* again.  n counts the requests of the sequence that have been made, pk is
\* the id of the user created; any other request starts over.
NoScen == [n |-> 0, pk |-> <<>>]

ScenNext(op, k, pk) ==
    IF op = "create" /\ k = "user" /\ cache = EmptyCache
    THEN [n |-> 1, pk |-> pk]
    ELSE IF op = "list" /\ k = "user" /\ last.scen.n = 1
    THEN [n |-> 2, pk |-> last.scen.pk]
    ELSE IF op = "retrieve" /\ k = "user" /\ last.scen.n \in {2, 3}
            /\ pk = last.scen.pk
    THEN [n |-> last.scen.n + 1, pk |-> pk]
    ELSE NoScen

\* Whether warm_cache has run to its end and only reads were made since.
WarmedNext(op) == op = "warm" \/ (op \in {"list", "retrieve"} /\ last.warmed)

\* The arguments of a call of a wrapped function (args, kwargs in the order
\* passed), or of a CacheContext block: its keys_to_clear, the positions of
\* the deletes that raise, whether the block raises, and what was logged as
\* an error.
NoCall == [args |-> <<>>, kwargs |-> <<>>, keys |-> <<>>, fails |-> {},
           raises |-> FALSE, log |-> <<>>]

\* What the last request did and answered.  fault names the cache call that
\* raised, if one did; call is used by the utilities of cache_decorators.
Result(op, k, pk, hit, calls, status, resp) ==
    [op |-> op, kind |-> k, pk |-> pk, hit |-> hit, calls |-> calls,
     status |-> status, resp |-> resp, fault |-> "none",
     scen |-> ScenNext(op, k, pk), warmed |-> WarmedNext(op), call |-> NoCall]

\* The result of a request that a raising cache call has ended.
Faulted(res, at) == [res EXCEPT !.fault = at, !.scen = NoScen, !.warmed = FALSE]

\* written: a write was made after the cache.get of this request.
NoReader == [pc |-> "idle", op |-> "none", kind |-> "user", pk |-> <<>>,
             data |-> NoPayload, hit |-> FALSE, written |-> FALSE]
NoReaders == [r \in {1, 2} |-> NoReader]

\* ki: the kind being warmed (1 users, 2 passengers, 3 riders); es: the
\* cache.set calls of that kind, n the next of them; written: a write was
\* made since the run began.
NoWarm == [pc |-> "idle", clear |-> FALSE, ki |-> 1, es |-> <<>>, n |-> 1,
           written |-> FALSE]

NoKeyCall == [fn |-> "none", kind |-> "user", identifier |-> PyNone]

Created == nextId["user"] + nextId["passenger"] + nextId["rider"] - 3

Init ==
    /\ db = [k \in Kinds |-> EmptyTable]
    /\ nextId = [k \in Kinds |-> 1]
    /\ cache = EmptyCache
    /\ last = Result("none", "user", <<>>, FALSE, 0, 0, NoPayload)
    /\ snap = [k \in Kinds |-> <<>>]
    /\ rd = NoRead
    /\ wr = NoWrite
    /\ stale = {}
    /\ rds = NoReaders
    /\ kreq = NoKeyCall
    /\ kres = <<>>
    /\ wm = NoWarm

\* ------------------------------------------------------- read-through
\* What the provider answers to super().list(): always succeeds.
FetchList(d, k) == [ok |-> TRUE, data |-> ListPayload(d, k)]

\* What the provider answers to super().retrieve(): Http404 when no record
\* has this pk.
FetchDetail(d, k, pk) ==
    LET i == PkToId(d[k], pk)
    IN IF i = 0 THEN [ok |-> FALSE, data |-> NoPayload]
       ELSE [ok |-> TRUE, data |-> DetailPayload(d, k, i)]

\* Variants of the read-through body with one slip each.
\* A hit that still asks the provider and stores the answer again.
ReadThrough_Refetch(c, key, fetched) ==
    IF fetched.ok
    THEN [cache |-> cache_set(c, key, fetched.data, CACHE_TTL),
          hit |-> cache_get_present(c, key), calls |-> 1, status |-> 200,
          resp |-> fetched.data]
    ELSE [cache |-> c, hit |-> FALSE, calls |-> 1, status |-> 404,
          resp |-> NoPayload]

\* A miss that stores the payload with a timeout other than CACHE_TTL.
ReadThrough_WrongTimeout(c, key, fetched) ==
    IF cache_get_present(c, key)
    THEN [cache |-> c, hit |-> TRUE, calls |-> 0, status |-> 200,
          resp |-> c[key].value]
    ELSE IF fetched.ok
    THEN [cache |-> cache_set(c, key, fetched.data, 1), hit |-> FALSE,
          calls |-> 1, status |-> 200, resp |-> fetched.data]
    ELSE [cache |-> c, hit |-> FALSE, calls |-> 1, status |-> 404,
          resp |-> NoPayload]

\* A miss that returns without cache.set.
ReadThrough_NoSet(c, key, fetched) ==
    IF cache_get_present(c, key)
    THEN [cache |-> c, hit |-> TRUE, calls |-> 0, status |-> 200,
          resp |-> c[key].value]
    ELSE IF fetched.ok
    THEN [cache |-> c, hit |-> FALSE, calls |-> 1, status |-> 200,
          resp |-> fetched.data]
    ELSE [cache |-> c, hit |-> FALSE, calls |-> 1, status |-> 404,
          resp |-> NoPayload]

\* A failure of the provider that is stored like an answer.
ReadThrough_CachesFailure(c, key, fetched) ==
    IF cache_get_present(c, key)
    THEN [cache |-> c, hit |-> TRUE, calls |-> 0, status |-> 200,
          resp |-> c[key].value]
    ELSE [cache |-> cache_set(c, key, fetched.data, CACHE_TTL), hit |-> FALSE,
          calls |-> 1, status |-> IF fetched.ok THEN 200 ELSE 404,
          resp |-> fetched.data]

\* The body shared by every list and retrieve handler: cache.get, return on
\* a hit; else the provider call, cache.set with CACHE_TTL, return.  An
\* exception of the provider leaves the handler before cache.set.
ReadThrough(c, key, fetched) ==
    IF cache_get_present(c, key)
    THEN [cache |-> c, hit |-> TRUE, calls |-> 0, status |-> 200,
          resp |-> c[key].value]
    ELSE IF fetched.ok
    THEN [cache |-> cache_set(c, key, fetched.data, CACHE_TTL), hit |-> FALSE,
          calls |-> 1, status |-> 200, resp |-> fetched.data]
    ELSE [cache |-> c, hit |-> FALSE, calls |-> 1, status |-> 404,
          resp |-> NoPayload]

List(k) ==
    LET r == ReadThrough(cache, ViewListKey(k), FetchList(db, k))
    IN /\ cache' = r.cache
       /\ last' = Result("list", k, <<>>, r.hit, r.calls, r.status, r.resp)
       /\ snap' = [snap EXCEPT ![k] = <<r.resp>>]
       /\ UNCHANGED <<db, nextId, conc>>

Retrieve(k, pk) ==
    LET r == ReadThrough(cache, ViewDetailKey(k, PyStr(pk)), FetchDetail(db, k, pk))
    IN /\ cache' = r.cache
       /\ last' = Result("retrieve", k, pk, r.hit, r.calls, r.status, r.resp)
       /\ UNCHANGED <<db, nextId, snap, conc>>

\* ------------------------------------------------------------ invalidation
\* perform_create of the three viewsets, before super().perform_create.
perform_create(c, k) == cache_delete(c, ViewListKey(k))

\* perform_update and perform_destroy, before the call of super().
perform_update(c, k, id) ==
    cache_delete(cache_delete(c, ViewListKey(k)), ViewDetailKey(k, PyInt(id)))

perform_destroy(c, k, id) ==
    cache_delete(cache_delete(c, ViewListKey(k)), ViewDetailKey(k, PyInt(id)))

\* A post_save receiver that deletes nothing, as when it is not connected.
invalidate_cache_Nothing(c, k, id, created) == c

\* post_save receivers invalidate_{user,passenger,rider}_cache.
invalidate_cache(c, k, id, created) ==
    LET c1 == cache_delete(c, SignalListKey(k))
    IN IF ~created THEN cache_delete(c1, SignalDetailKey(k, id)) ELSE c1

\* post_delete receivers invalidate_{user,passenger,rider}_cache_on_delete.
invalidate_cache_on_delete(c, k, id) ==
    cache_delete(cache_delete(c, SignalListKey(k)), SignalDetailKey(k, id))

\* ------------------------------------------------------------------ writes
\* The records a request body can describe for kind k.
Bodies(k) ==
    IF k = "user" THEN {UserRec(t) : t \in UserTypes}
    ELSE IF k = "passenger" THEN {PassengerRec(u, v) : u \in Ids, v \in Vals}
    ELSE {RiderRec(u) : u \in Ids}

\* serializer.is_valid(): user_id must name a user whose user_type is the kind.
Valid(d, k, rec) ==
    k = "user" \/ (rec.user \in DOMAIN d["user"] /\ d["user"][rec.user].user_type = k)

Referenced(d, u) ==
    \E k \in {"passenger", "rider"} : \E i \in DOMAIN d[k] : d[k][i].user = u

Put(d, k, id, rec) ==
    [d EXCEPT ![k] = [x \in (DOMAIN d[k]) \cup {id} |-> IF x = id THEN rec ELSE d[k][x]]]

Remove(d, k, id) ==
    [d EXCEPT ![k] = [x \in (DOMAIN d[k]) \ {id} |-> d[k][x]]]

\* Variants of the invalidation of a whole write handler with one slip each.
\* A create that clears the list key of the user kind whatever the kind.
create_invalidation_UserKeyOnly(c, k, id) ==
    invalidate_cache(perform_create(c, "user"), "user", id, TRUE)

\* A create that also stores an entry under the detail key of the new record.
create_invalidation_Populates(c, k, id) ==
    cache_set(invalidate_cache(perform_create(c, k), k, id, TRUE),
              ViewDetailKey(k, PyInt(id)), NoPayload, CACHE_TTL)

\* A create that clears nothing.
create_invalidation_None(c, k, id) == c

\* An update that clears the whole cache.
update_invalidation_ClearsAll(c, k, id) == EmptyCache

\* An update that clears the list key and forgets the detail key.
update_invalidation_ListOnly(c, k, id) == cache_delete(c, ViewListKey(k))

\* A delete that clears the list key and forgets the detail key.
destroy_invalidation_ListOnly(c, k, id) == cache_delete(c, ViewListKey(k))

\* The cache as a whole write handler leaves it: the deletes of perform_*,
\* then, inside super().perform_*, the save and the receivers it dispatches.
create_invalidation(c, k, id) == invalidate_cache(perform_create(c, k), k, id, TRUE)
update_invalidation(c, k, id) == invalidate_cache(perform_update(c, k, id), k, id, FALSE)
destroy_invalidation(c, k, id) ==
    invalidate_cache_on_delete(perform_destroy(c, k, id), k, id)

\* A request that fails validation or names no record returns before
\* perform_create / perform_update / perform_destroy and changes nothing, so
\* the three writes are enabled for valid requests only.
Create(k, rec) ==
    /\ nextId[k] <= MaxId
    /\ Created < MaxRecords
    /\ Valid(db, k, rec)
    /\ LET id == nextId[k]
       IN /\ db' = Put(db, k, id, rec)
          /\ nextId' = [nextId EXCEPT ![k] = id + 1]
          /\ cache' = create_invalidation(cache, k, id)
          /\ last' = Result("create", k, Format(PyInt(id)), FALSE, 1, 201, NoPayload)
          /\ snap' = [snap EXCEPT ![k] = <<>>]
          /\ UNCHANGED conc

Update(k, id, rec) ==
    /\ id \in DOMAIN db[k]
    /\ Valid(db, k, rec)
    /\ db' = Put(db, k, id, rec)
    /\ cache' = update_invalidation(cache, k, id)
    /\ last' = Result("update", k, Format(PyInt(id)), FALSE, 1, 200, NoPayload)
    /\ snap' = [snap EXCEPT ![k] = <<>>]
    /\ UNCHANGED <<nextId, conc>>

\* A user that a passenger or a rider still names is not deleted here: what
\* then happens to those records is decided by the models, not by this layer.
Destroy(k, id) ==
    /\ id \in DOMAIN db[k]
    /\ ~(k = "user" /\ Referenced(db, id))
    /\ db' = Remove(db, k, id)
    /\ cache' = destroy_invalidation(cache, k, id)
    /\ last' = Result("destroy", k, Format(PyInt(id)), FALSE, 1, 204, NoPayload)
    /\ snap' = [snap EXCEPT ![k] = <<>>]
    /\ UNCHANGED <<nextId, conc>>

\* One unit of time passes.
Tick ==
    /\ cache # EmptyCache
    /\ cache' = cache_age(cache)
    /\ last' = Result("tick", "user", <<>>, FALSE, 0, 0, NoPayload)
    /\ snap' = [k \in Kinds |->
                  IF ViewListKey(k) \in DOMAIN cache' THEN snap[k] ELSE <<>>]
    /\ UNCHANGED <<db, nextId, conc>>

Next ==
    \/ \E k \in Kinds : List(k)
    \/ \E k \in Kinds : \E pk \in Pks : Retrieve(k, pk)
    \/ \E k \in Kinds : \E rec \in Bodies(k) : Create(k, rec)
    \/ \E k \in Kinds : \E id \in Ids : \E rec \in Bodies(k) : Update(k, id, rec)
    \/ \E k \in Kinds : \E id \in Ids : Destroy(k, id)
    \/ Tick

Spec == Init /\ [][Next]_vars


\* ------------------------------------------------- overlapping requests
\* The same handlers taken one cache or provider call at a time, with one
\* read and one write in flight.  A read is cache.get, then the provider
\* call, then cache.set; a write is the deletes of perform_*, then the save
\* inside super().perform_*, then the receiver the save dispatches, then the
\* return of the response.  No entry expires while the two requests overlap:
\* a request takes far less time than CACHE_TTL.

ReadKey(r) ==
    IF r.op = "list" THEN ViewListKey(r.kind) ELSE ViewDetailKey(r.kind, PyStr(r.pk))

\* cache.get of list (pk empty) or retrieve: a hit returns at once.
ReadGet(op, k, pk) ==
    /\ rd.pc = "idle"
    /\ LET r == [pc |-> "fetch", op |-> op, kind |-> k, pk |-> pk, data |-> NoPayload,
                 old |-> FALSE]
       IN rd' = IF cache_get_present(cache, ReadKey(r)) THEN NoRead ELSE r
    /\ UNCHANGED <<db, nextId, cache, last, snap, wr, stale, aux>>

\* super().list() or super().retrieve(): Http404 ends the request.
ReadFetch ==
    /\ rd.pc = "fetch"
    /\ LET f == IF rd.op = "list" THEN FetchList(db, rd.kind)
                ELSE FetchDetail(db, rd.kind, rd.pk)
       IN rd' = IF f.ok THEN [rd EXCEPT !.pc = "set", !.data = f.data] ELSE NoRead
    /\ UNCHANGED <<db, nextId, cache, last, snap, wr, stale, aux>>

\* A read that does not store a payload whose record was written after the
\* provider call.
ReadSet_SkipIfWritten ==
    /\ rd.pc = "set"
    /\ cache' = IF rd.old THEN cache ELSE cache_set(cache, ReadKey(rd), rd.data, CACHE_TTL)
    /\ stale' = stale \ {ReadKey(rd)}
    /\ rd' = NoRead
    /\ UNCHANGED <<db, nextId, last, snap, wr, aux>>

\* cache.set(cache_key, response.data, timeout=settings.CACHE_TTL)
ReadSet ==
    /\ rd.pc = "set"
    /\ cache' = cache_set(cache, ReadKey(rd), rd.data, CACHE_TTL)
    /\ stale' = stale \ {ReadKey(rd)}
    /\ rd' = NoRead
    /\ UNCHANGED <<db, nextId, last, snap, wr, aux>>

\* The keys a write of record (k, id) is to invalidate.
WriteKeys(w) == {SignalListKey(w.kind), SignalDetailKey(w.kind, w.id)}

\* perform_create / perform_update / perform_destroy up to the call of super().
WriteBegin(op, k, id, rec) ==
    /\ wr.pc = "idle"
    /\ Valid(db, k, rec)
    /\ IF op = "create"
       THEN id = nextId[k] /\ id <= MaxId /\ Created < MaxRecords
       ELSE id \in DOMAIN db[k]
    /\ op = "destroy" => (rec = db[k][id] /\ ~(k = "user" /\ Referenced(db, id)))
    /\ cache' = IF op = "create" THEN perform_create(cache, k)
                ELSE IF op = "update" THEN perform_update(cache, k, id)
                ELSE perform_destroy(cache, k, id)
    /\ stale' = stale \cap DOMAIN cache'
    /\ wr' = [pc |-> "save", op |-> op, kind |-> k, id |-> id, rec |-> rec,
              cleared |-> {}]
    /\ UNCHANGED <<db, nextId, last, snap, rd, aux>>

\* serializer.save() / instance.delete(): the record provider is written.
WriteSave ==
    /\ wr.pc = "save"
    /\ db' = IF wr.op = "destroy" THEN Remove(db, wr.kind, wr.id)
             ELSE Put(db, wr.kind, wr.id, wr.rec)
    /\ nextId' = IF wr.op = "create" THEN [nextId EXCEPT ![wr.kind] = wr.id + 1]
                 ELSE nextId
    /\ stale' = stale \cup (WriteKeys(wr) \cap DOMAIN cache)
    /\ wr' = [wr EXCEPT !.pc = "signal"]
    /\ rd' = IF rd.pc = "set" /\ ReadKey(rd) \in WriteKeys(wr)
             THEN [rd EXCEPT !.old = TRUE] ELSE rd
    /\ UNCHANGED <<cache, last, snap, aux>>

\* The post_save or post_delete receiver, run by the save before it returns.
WriteSignal ==
    /\ wr.pc = "signal"
    /\ cache' = IF wr.op = "destroy"
                THEN invalidate_cache_on_delete(cache, wr.kind, wr.id)
                ELSE invalidate_cache(cache, wr.kind, wr.id, wr.op = "create")
    /\ stale' = stale \cap DOMAIN cache'
    /\ wr' = [wr EXCEPT !.pc = "respond", !.cleared = stale \ DOMAIN cache']
    /\ UNCHANGED <<db, nextId, last, snap, rd, aux>>

\* The write request returns its response.
WriteReturn ==
    /\ wr.pc = "respond"
    /\ wr' = NoWrite
    /\ UNCHANGED <<db, nextId, cache, last, snap, rd, stale, aux>>

NextConc ==
    \/ \E k \in Kinds : ReadGet("list", k, <<>>)
    \/ \E k \in Kinds : \E pk \in Pks : ReadGet("retrieve", k, pk)
    \/ ReadFetch
    \/ ReadSet
    \/ \E op \in {"create", "update", "destroy"} : \E k \in Kinds :
         \E id \in Ids : \E rec \in Bodies(k) : WriteBegin(op, k, id, rec)
    \/ WriteSave
    \/ WriteSignal
    \/ WriteReturn

SpecConc == Init /\ [][NextConc]_vars

\* ------------------------------------------------------ overlapping reads
\* Two list or retrieve requests taken one cache or provider call at a time,
\* so that both can miss before either sets; writes are whole handlers that
\* run between the steps of the reads.  The two reads are of the same key:
\* reads of different keys touch different entries.  A finished read keeps
\* what it returned until its caller takes it.  No entry expires here.

\* cache.get: a hit returns the cached payload.
RGet(r, op, k, pk) ==
    /\ rds[r].pc = "idle"
    /\ rds[3 - r].pc # "idle" => (rds[3 - r].op = op /\ rds[3 - r].kind = k /\ rds[3 - r].pk = pk)
    /\ LET q == [NoReader EXCEPT !.op = op, !.kind = k, !.pk = pk]
           key == ReadKey(q)
       IN rds' = [rds EXCEPT ![r] =
                    IF cache_get_present(cache, key)
                    THEN [q EXCEPT !.pc = "done", !.hit = TRUE, !.data = cache[key].value]
                    ELSE [q EXCEPT !.pc = "fetch"]]
    /\ UNCHANGED <<db, nextId, cache, last, snap, rd, wr, stale, kreq, kres, wm>>

\* super().list() or super().retrieve(): Http404 ends the request.
RFetch(r) ==
    /\ rds[r].pc = "fetch"
    /\ LET f == IF rds[r].op = "list" THEN FetchList(db, rds[r].kind)
                ELSE FetchDetail(db, rds[r].kind, rds[r].pk)
       IN rds' = [rds EXCEPT ![r] =
                    IF f.ok THEN [@ EXCEPT !.pc = "set", !.data = f.data] ELSE NoReader]
    /\ UNCHANGED <<db, nextId, cache, last, snap, rd, wr, stale, kreq, kres, wm>>

\* A read that removes the key when the other read has set it meanwhile.
RSet_DeleteIfPresent(r) ==
    /\ rds[r].pc = "set"
    /\ cache' = IF cache_get_present(cache, ReadKey(rds[r]))
                THEN cache_delete(cache, ReadKey(rds[r]))
                ELSE cache_set(cache, ReadKey(rds[r]), rds[r].data, CACHE_TTL)
    /\ rds' = [rds EXCEPT ![r].pc = "done"]
    /\ UNCHANGED <<db, nextId, last, snap, rd, wr, stale, kreq, kres, wm>>

\* cache.set(cache_key, response.data, timeout=settings.CACHE_TTL), and the
\* return of response.
RSet(r) ==
    /\ rds[r].pc = "set"
    /\ cache' = cache_set(cache, ReadKey(rds[r]), rds[r].data, CACHE_TTL)
    /\ rds' = [rds EXCEPT ![r].pc = "done"]
    /\ UNCHANGED <<db, nextId, last, snap, rd, wr, stale, kreq, kres, wm>>

\* The caller has its response.
RReturn(r) ==
    /\ rds[r].pc = "done"
    /\ rds' = [rds EXCEPT ![r] = NoReader]
    /\ UNCHANGED <<db, nextId, cache, last, snap, rd, wr, stale, kreq, kres, wm>>

\* A whole create, update or delete between two steps of the reads, or of
\* the warmer.
RWrite(op, k, id, rec) ==
    /\ Valid(db, k, rec)
    /\ IF op = "create"
       THEN id = nextId[k] /\ id <= MaxId /\ Created < MaxRecords
       ELSE id \in DOMAIN db[k]
    /\ op = "destroy" => (rec = db[k][id] /\ ~(k = "user" /\ Referenced(db, id)))
    /\ db' = IF op = "destroy" THEN Remove(db, k, id) ELSE Put(db, k, id, rec)
    /\ nextId' = IF op = "create" THEN [nextId EXCEPT ![k] = id + 1] ELSE nextId
    /\ cache' = IF op = "create" THEN create_invalidation(cache, k, id)
                ELSE IF op = "update" THEN update_invalidation(cache, k, id)
                ELSE destroy_invalidation(cache, k, id)
    /\ rds' = [r \in {1, 2} |->
                IF rds[r].pc = "idle" THEN rds[r] ELSE [rds[r] EXCEPT !.written = TRUE]]
    /\ wm' = IF wm.pc = "idle" THEN wm ELSE [wm EXCEPT !.written = TRUE]
    /\ UNCHANGED <<last, snap, rd, wr, stale, kreq, kres>>

NextReaders ==
    \/ \E r \in {1, 2} : \E k \in Kinds : RGet(r, "list", k, <<>>)
    \/ \E r \in {1, 2} : \E k \in Kinds : \E pk \in Pks : RGet(r, "retrieve", k, pk)
    \/ \E r \in {1, 2} : RFetch(r)
    \/ \E r \in {1, 2} : RSet(r)
    \/ \E r \in {1, 2} : RReturn(r)
    \/ \E op \in {"create", "update", "destroy"} : \E k \in Kinds :
         \E id \in Ids : \E rec \in Bodies(k) : RWrite(op, k, id, rec)

SpecReaders == Init /\ [][NextReaders]_vars

\* ------------------------------------------------------------- warm_cache
\* The keys as the command writes them: 'user_list', f'user_{user.id}'.
WarmListKey(k) == <<k, "_", "list">>
\* A warmer that writes its detail keys with ':' where the views have '_'.
WarmDetailKey_Colon(k, id) == <<k, ":">> \o Format(PyInt(id))
WarmDetailKey(k, id) == <<k, "_">> \o Format(PyInt(id))

\* The cache.set calls of one kind in the order handle makes them: the list
\* of the kind, then every record of the kind.
WarmKind(d, k) ==
    LET ids == IdsFrom(d[k], 1)
    IN <<[key |-> WarmListKey(k), value |-> ListPayload(d, k)]>>
       \o [n \in 1..Len(ids) |->
             [key |-> WarmDetailKey(k, ids[n]), value |-> DetailPayload(d, k, ids[n])]]

\* All cache.set calls of handle: users, then passengers, then riders.
WarmEntries(d) == WarmKind(d, "user") \o WarmKind(d, "passenger") \o WarmKind(d, "rider")

\* A warmer that leaves the timeout to the backend's default.
RECURSIVE SetFirst_DefaultTimeout(_, _, _)
SetFirst_DefaultTimeout(c, es, n) ==
    IF n = 0 THEN c
    ELSE cache_set(SetFirst_DefaultTimeout(c, es, n - 1), es[n].key, es[n].value,
                   CACHE_TTL + 1)

\* A warmer that leaves an entry that is there as it is (cache.add).
RECURSIVE SetFirst_KeepPresent(_, _, _)
SetFirst_KeepPresent(c, es, n) ==
    IF n = 0 THEN c
    ELSE LET c1 == SetFirst_KeepPresent(c, es, n - 1)
         IN IF cache_get_present(c1, es[n].key) THEN c1
            ELSE cache_set(c1, es[n].key, es[n].value, CACHE_TTL)

\* The first n calls cache.set(key, data, timeout=settings.CACHE_TTL).
RECURSIVE SetFirst(_, _, _)
SetFirst(c, es, n) ==
    IF n = 0 THEN c
    ELSE cache_set(SetFirst(c, es, n - 1), es[n].key, es[n].value, CACHE_TTL)

\* total_items: the records of the three kinds and the three lists.
total_items(d) ==
    Cardinality(DOMAIN d["user"]) + Cardinality(DOMAIN d["passenger"])
        + Cardinality(DOMAIN d["rider"]) + 3

\* python manage.py warm_cache [--clear], run to its end.  calls is the
\* number of items the command reports, status its exit status.
Warm(clear) ==
    LET es == WarmEntries(db)
        c0 == IF clear THEN EmptyCache ELSE cache
    IN /\ cache' = SetFirst(c0, es, Len(es))
       /\ last' = Result("warm", "user", <<>>, FALSE, total_items(db), 0, NoPayload)
       /\ snap' = [k \in Kinds |-> <<>>]
       /\ UNCHANGED <<db, nextId, conc>>

\* warm_cache with its n-th cache.set raising: the except clause writes the
\* error, logs it and raises it again.  pk is the key that was not set, status
\* the exit status of the command; nothing is counted.
WarmFault(clear, n) ==
    LET es == WarmEntries(db)
        c0 == IF clear THEN EmptyCache ELSE cache
    IN /\ n \in 1..Len(es)
       /\ cache' = SetFirst(c0, es, n - 1)
       /\ last' = Faulted(Result("warm", "user", es[n].key, FALSE, 0, 1, NoPayload), "set")
       /\ snap' = [k \in Kinds |-> <<>>]
       /\ UNCHANGED <<db, nextId, conc>>

\* The most cache.set calls one run of warm_cache makes.
MaxWarm == MaxRecords + 3

NextWarm ==
    \/ Next
    \/ \E clear \in BOOLEAN : Warm(clear)

\* The requests one after the other, and runs of warm_cache between them.
SpecWarm == Init /\ [][NextWarm]_vars

\* ------------------------------------------- warm_cache overlapping writes
\* handle of warm_cache taken one cache call at a time, with whole writes
\* between its steps.  For each kind the queryset is evaluated once, when
\* serializer.data of the list is computed; the list and the records are
\* then set from that result.  No entry expires here.
WarmOrder == <<"user", "passenger", "rider">>

\* python manage.py warm_cache [--clear] begins.
WarmStart(clear) ==
    /\ wm.pc = "idle"
    /\ wm' = [NoWarm EXCEPT !.pc = IF clear THEN "clear" ELSE "snap", !.clear = clear]
    /\ UNCHANGED <<db, nextId, cache, last, snap, rd, wr, stale, rds, kreq, kres>>

\* A --clear that leaves the cache as it is.
WarmClear_Nothing ==
    /\ wm.pc = "clear"
    /\ cache' = cache
    /\ wm' = [wm EXCEPT !.pc = "snap"]
    /\ UNCHANGED <<db, nextId, last, snap, rd, wr, stale, rds, kreq, kres>>

\* cache.clear()
WarmClear ==
    /\ wm.pc = "clear"
    /\ cache' = EmptyCache
    /\ wm' = [wm EXCEPT !.pc = "snap"]
    /\ UNCHANGED <<db, nextId, last, snap, rd, wr, stale, rds, kreq, kres>>

\* The queryset of the kind is read and serialized.
WarmSnap ==
    /\ wm.pc = "snap"
    /\ wm' = [wm EXCEPT !.pc = "set", !.es = WarmKind(db, WarmOrder[wm.ki]), !.n = 1]
    /\ UNCHANGED <<db, nextId, cache, last, snap, rd, wr, stale, rds, kreq, kres>>

\* The next cache.set of the kind; after the last one, the next kind.
WarmSet ==
    /\ wm.pc = "set"
    /\ cache' = cache_set(cache, wm.es[wm.n].key, wm.es[wm.n].value, CACHE_TTL)
    /\ wm' = IF wm.n < Len(wm.es) THEN [wm EXCEPT !.n = wm.n + 1]
             ELSE IF wm.ki < Len(WarmOrder)
             THEN [wm EXCEPT !.pc = "snap", !.ki = wm.ki + 1, !.es = <<>>, !.n = 1]
             ELSE [wm EXCEPT !.pc = "done", !.es = <<>>, !.n = 1]
    /\ UNCHANGED <<db, nextId, last, snap, rd, wr, stale, rds, kreq, kres>>

\* The summary is written and the command returns.
WarmEnd ==
    /\ wm.pc = "done"
    /\ wm' = NoWarm
    /\ UNCHANGED <<db, nextId, cache, last, snap, rd, wr, stale, rds, kreq, kres>>

NextWarmRace ==
    \/ \E clear \in BOOLEAN : WarmStart(clear)
    \/ WarmClear
    \/ WarmSnap
    \/ WarmSet
    \/ WarmEnd
    \/ \E op \in {"create", "update", "destroy"} : \E k \in Kinds :
         \E id \in Ids : \E rec \in Bodies(k) : RWrite(op, k, id, rec)

SpecWarmRace == Init /\ [][NextWarmRace]_vars

\* ------------------------------------------------- cache calls that raise
\* The handlers when a call of the cache backend raises (the backend cannot
\* be reached).  No view and no receiver catches the exception of a cache
\* call, and handle of warm_cache logs it and raises it again; an exception
\* that leaves a view is answered with status 500.  No entry expires here:
\* expiry plays no part in how an exception is handled.

\* list / retrieve with cache.get raising (at = "get"), or cache.set raising
\* after a miss and an answer of the provider (at = "set").
ReadThroughFault(c, key, fetched, at) ==
    IF at = "get"
    THEN [cache |-> c, hit |-> FALSE, calls |-> 0, status |-> 500, resp |-> NoPayload]
    ELSE [cache |-> c, hit |-> FALSE, calls |-> 1, status |-> 500, resp |-> NoPayload]

ListFault(k, at) ==
    LET r == ReadThroughFault(cache, ViewListKey(k), FetchList(db, k), at)
    IN /\ at = "set" => ~cache_get_present(cache, ViewListKey(k))
       /\ cache' = r.cache
       /\ last' = Faulted(Result("list", k, <<>>, r.hit, r.calls, r.status, r.resp), at)
       /\ UNCHANGED <<db, nextId, snap, conc>>

RetrieveFault(k, pk, at) ==
    LET key == ViewDetailKey(k, PyStr(pk))
        r == ReadThroughFault(cache, key, FetchDetail(db, k, pk), at)
    IN /\ at = "set" => (~cache_get_present(cache, key) /\ FetchDetail(db, k, pk).ok)
       /\ cache' = r.cache
       /\ last' = Faulted(Result("retrieve", k, pk, r.hit, r.calls, r.status, r.resp), at)
       /\ UNCHANGED <<db, nextId, snap, conc>>

\* A write with the first cache.delete of perform_* raising (at = "view":
\* super().perform_* is never reached), or the first cache.delete of the
\* receiver raising (at = "signal": the record is saved and the exception
\* leaves save()).
WriteFault(op, k, id, rec, at) ==
    /\ Valid(db, k, rec)
    /\ IF op = "create"
       THEN id = nextId[k] /\ id <= MaxId /\ Created < MaxRecords
       ELSE id \in DOMAIN db[k]
    /\ op = "destroy" => (rec = db[k][id] /\ ~(k = "user" /\ Referenced(db, id)))
    /\ last' = Faulted(Result(op, k, Format(PyInt(id)), FALSE,
                              IF at = "view" THEN 0 ELSE 1, 500, NoPayload), at)
    /\ IF at = "view"
       THEN UNCHANGED <<db, nextId, cache, snap>>
       ELSE /\ db' = IF op = "destroy" THEN Remove(db, k, id) ELSE Put(db, k, id, rec)
            /\ nextId' = IF op = "create" THEN [nextId EXCEPT ![k] = id + 1] ELSE nextId
            /\ cache' = IF op = "create" THEN perform_create(cache, k)
                        ELSE IF op = "update" THEN perform_update(cache, k, id)
                        ELSE perform_destroy(cache, k, id)
            /\ snap' = [snap EXCEPT ![k] = <<>>]
    /\ UNCHANGED conc

NextFault ==
    \/ \E k \in Kinds : List(k)
    \/ \E k \in Kinds : \E pk \in Pks : Retrieve(k, pk)
    \/ \E k \in Kinds : \E rec \in Bodies(k) : Create(k, rec)
    \/ \E k \in Kinds : \E id \in Ids : \E rec \in Bodies(k) : Update(k, id, rec)
    \/ \E k \in Kinds : \E id \in Ids : Destroy(k, id)
    \/ \E k \in Kinds : \E at \in {"get", "set"} : ListFault(k, at)
    \/ \E k \in Kinds : \E pk \in Pks : \E at \in {"get", "set"} : RetrieveFault(k, pk, at)
    \/ \E op \in {"create", "update", "destroy"} : \E k \in Kinds : \E id \in Ids :
         \E rec \in Bodies(k) : \E at \in {"view", "signal"} : WriteFault(op, k, id, rec, at)
    \/ \E clear \in BOOLEAN : Warm(clear)
    \/ \E clear \in BOOLEAN : \E n \in 1..MaxWarm : WarmFault(clear, n)

\* The requests and warm_cache, with and without cache calls that raise.
SpecFault == Init /\ [][NextFault]_vars

\* ------------------------------------------------------- the key functions
\* The three places that make keys, each called on its own.  A call names
\* the place, the kind and the identifier; PyNone stands for a call that
\* passes no identifier, which is how each place asks for the list key.

\* What a view can pass as identifier: the pk of the URL (text), the id of
\* the object (a number), or nothing.
ViewIdentifiers ==
    {PyNone} \cup {PyInt(i) : i \in 0..MaxId}
        \cup {PyStr(x) : x \in Pks \cup {<<>>, <<"0">>, <<"1", "_", "2">>}}

\* What a receiver or the warmer formats: instance.id, or nothing.
InstanceIdentifiers == {PyNone} \cup {PyInt(i) : i \in 0..MaxId}

KeyCalls ==
    [fn : {"view"}, kind : Kinds, identifier : ViewIdentifiers]
        \cup [fn : {"signal", "warm"}, kind : Kinds, identifier : InstanceIdentifiers]

\* The key the called place computes.
KeyOf(q) ==
    IF q.fn = "view"
    THEN IF q.identifier = PyNone THEN ViewListKey(q.kind)
         ELSE ViewDetailKey(q.kind, q.identifier)
    ELSE IF q.fn = "signal"
    THEN IF q.identifier = PyNone THEN SignalListKey(q.kind)
         ELSE SignalDetailKey(q.kind, q.identifier.i)
    ELSE IF q.identifier = PyNone THEN WarmListKey(q.kind)
         ELSE WarmDetailKey(q.kind, q.identifier.i)

InitKeys ==
    /\ db = [k \in Kinds |-> EmptyTable]
    /\ nextId = [k \in Kinds |-> 1]
    /\ cache = EmptyCache
    /\ last = Result("none", "user", <<>>, FALSE, 0, 0, NoPayload)
    /\ snap = [k \in Kinds |-> <<>>]
    /\ rd = NoRead
    /\ wr = NoWrite
    /\ stale = {}
    /\ rds = NoReaders
    /\ kreq \in KeyCalls
    /\ kres = <<>>
    /\ wm = NoWarm

KeyCompute ==
    /\ kres = <<>>
    /\ kres' = KeyOf(kreq)
    /\ UNCHANGED <<db, nextId, cache, last, snap, rd, wr, stale, rds, kreq, wm>>

NextKeys == KeyCompute

SpecKeys == InitKeys /\ [][NextKeys]_vars

\* ------------------------------------------------------ cache_key_builder
\* cache_key_builder(prefix, *args, **kwargs) called on its own.  kwargs is
\* the sequence of the keyword arguments in the order the call passes them.

\* "_".join(parts)
RECURSIVE Join(_)
Join(parts) ==
    IF Len(parts) = 0 THEN <<>>
    ELSE IF Len(parts) = 1 THEN parts[1]
    ELSE parts[1] \o <<"_">> \o Join(Tail(parts))

\* The keyword names of the calls, in the order sorted() puts them:
\* 'type' < 'user_id'.
SortedKwNames == << <<"type">>, <<"user", "_", "id">> >>

\* kwargs[key]
KwValue(kwargs, key) ==
    kwargs[CHOOSE i \in 1..Len(kwargs) : kwargs[i].key = key].value

\* sorted(kwargs.keys())
SortedKeys(kwargs) ==
    SelectSeq(SortedKwNames, LAMBDA key : \E i \in 1..Len(kwargs) : kwargs[i].key = key)

cache_key_builder(prefix, args, kwargs) ==
    LET keys == SortedKeys(kwargs)
    IN Join(<<prefix>>
            \o [n \in 1..Len(args) |-> Format(args[n])]
            \o [n \in 1..Len(keys) |-> keys[n] \o <<"_">> \o Format(KwValue(kwargs, keys[n]))])

\* The calls made: one or no keyword argument of each name, in either order.
BuilderArgs ==
    {<<>>, <<PyInt(1)>>, <<PyStr(<<"x">>)>>, <<PyInt(1), PyInt(2)>>}

BuilderKwargs ==
    LET ids == {[key |-> <<"user", "_", "id">>, value |-> PyInt(i)] : i \in {123, 7}}
        types == {[key |-> <<"type">>, value |-> PyStr(<<"profile">>)]}
    IN {<<>>} \cup {<<a>> : a \in ids \cup types}
          \cup {<<a, b>> : a \in ids, b \in types} \cup {<<b, a>> : a \in ids, b \in types}

BuilderCalls ==
    [fn : {"cache_key_builder"}, prefix : {<<"user">>, <<"rider">>},
     args : BuilderArgs, kwargs : BuilderKwargs]

InitBuilder ==
    /\ db = [k \in Kinds |-> EmptyTable]
    /\ nextId = [k \in Kinds |-> 1]
    /\ cache = EmptyCache
    /\ last = Result("none", "user", <<>>, FALSE, 0, 0, NoPayload)
    /\ snap = [k \in Kinds |-> <<>>]
    /\ rd = NoRead
    /\ wr = NoWrite
    /\ stale = {}
    /\ rds = NoReaders
    /\ kreq \in BuilderCalls
    /\ kres = <<>>
    /\ wm = NoWarm

BuilderCompute ==
    /\ kres = <<>>
    /\ kres' = cache_key_builder(kreq.prefix, kreq.args, kreq.kwargs)
    /\ UNCHANGED <<db, nextId, cache, last, snap, rd, wr, stale, rds, kreq, wm>>

NextBuilder == BuilderCompute

SpecBuilder == InitBuilder /\ [][NextBuilder]_vars

\* ------------------------------------------------------- cache_decorators
\* One function wrapped by cached_result, one wrapped by cache_with_timeout
\* (both with the default timeout and key_prefix), and CacheContext blocks,
\* over the same cache.  What a wrapped function returns is up to the
\* function: any of Results, at every execution.  cache.get answers None
\* both for a key that is absent and for an entry that holds None.
Results == {PyNone, PyInt(1), PyInt(2)}

\* repr(x)
Repr(x) == IF x.t = "int" THEN <<ToString(x.i)>>
           ELSE IF x.t = "str" THEN <<"'">> \o x.s \o <<"'">>
           ELSE <<"None">>

\* f"{args}": the repr of the tuple.
RECURSIVE ReprArgs(_)
ReprArgs(args) ==
    IF Len(args) = 0 THEN <<>>
    ELSE Repr(Head(args)) \o <<",">> \o ReprArgs(Tail(args))

\* f"{kwargs}": the repr of the dict, its items in the order they were passed.
RECURSIVE ReprKwargs(_)
ReprKwargs(kwargs) ==
    IF Len(kwargs) = 0 THEN <<>>
    ELSE <<"'">> \o Head(kwargs).key \o <<"'", ":">> \o Repr(Head(kwargs).value)
           \o <<",">> \o ReprKwargs(Tail(kwargs))

\* cache.get(key): the stored value, None when there is none.
cache_get(c, key) == IF key \in DOMAIN c THEN c[key].value ELSE PyNone

\* f"cached_{func.__name__}" for def expensive_query.
CachedResultKey == <<"cached", "_", "expensive", "_", "query">>

\* f"{key_prefix}{func.__name__}_{args}_{kwargs}" for def expensive_operation.
WithTimeoutKey(args, kwargs) ==
    <<"expensive", "_", "operation", "_", "(">> \o ReprArgs(args) \o <<")", "_", "{">>
        \o ReprKwargs(kwargs) \o <<"}">>

\* The wrapper of both decorators: the cached value when cache.get gives one
\* that is not None, else the function is executed and its result stored.
Wrapper(c, key, result) ==
    IF cache_get(c, key) # PyNone
    THEN [cache |-> c, hit |-> TRUE, calls |-> 0, resp |-> cache_get(c, key)]
    ELSE [cache |-> cache_set(c, key, result, CACHE_TTL), hit |-> FALSE, calls |-> 1,
          resp |-> result]

\* expensive_query(*args)
CachedResultCall(args, result) ==
    LET r == Wrapper(cache, CachedResultKey, result)
    IN /\ cache' = r.cache
       /\ last' = [Result("cached_result", "user", <<>>, r.hit, r.calls, 0, r.resp)
                     EXCEPT !.call = [NoCall EXCEPT !.args = args]]
       /\ UNCHANGED <<db, nextId, snap, conc>>

\* expensive_query.clear_cache()
CachedResultClear ==
    /\ cache' = cache_delete(cache, CachedResultKey)
    /\ last' = Result("clear_cache", "user", <<>>, FALSE, 0, 0, NoPayload)
    /\ UNCHANGED <<db, nextId, snap, conc>>

\* expensive_operation(*args, **kwargs)
WithTimeoutCall(args, kwargs, result) ==
    LET r == Wrapper(cache, WithTimeoutKey(args, kwargs), result)
    IN /\ cache' = r.cache
       /\ last' = [Result("cache_with_timeout", "user", <<>>, r.hit, r.calls, 0, r.resp)
                     EXCEPT !.call = [NoCall EXCEPT !.args = args, !.kwargs = kwargs]]
       /\ UNCHANGED <<db, nextId, snap, conc>>

\* An __exit__ whose loop ends at the first delete that raises.
RECURSIVE exit_StopsAtFailure(_, _, _, _)
exit_StopsAtFailure(c, keys, fails, n) ==
    IF n = 0 THEN [cache |-> c, log |-> <<>>]
    ELSE LET r == exit_StopsAtFailure(c, keys, fails, n - 1)
         IN IF r.log # <<>> THEN r
            ELSE IF n \in fails THEN [cache |-> r.cache, log |-> Append(r.log, keys[n])]
            ELSE [cache |-> cache_delete(r.cache, keys[n]), log |-> r.log]

\* CacheContext.__exit__ over the first n keys: cache.delete, and
\* logger.error for a delete that raises.
RECURSIVE exit(_, _, _, _)
exit(c, keys, fails, n) ==
    IF n = 0 THEN [cache |-> c, log |-> <<>>]
    ELSE LET r == exit(c, keys, fails, n - 1)
         IN IF n \in fails THEN [cache |-> r.cache, log |-> Append(r.log, keys[n])]
            ELSE [cache |-> cache_delete(r.cache, keys[n]), log |-> r.log]

\* with CacheContext(keys): a block that returns or raises.  __exit__
\* returns False, so what the block raised goes on to the caller: status 1.
ContextRun(keys, fails, raises) ==
    LET r == exit(cache, keys, fails, Len(keys))
    IN /\ fails \subseteq 1..Len(keys)
       /\ cache' = r.cache
       /\ last' = [Result("context", "user", <<>>, FALSE, 0, IF raises THEN 1 ELSE 0,
                           NoPayload)
                     EXCEPT !.call = [NoCall EXCEPT !.keys = keys, !.fails = fails,
                                                    !.raises = raises, !.log = r.log]]
       /\ UNCHANGED <<db, nextId, snap, conc>>

\* The calls made.
DecoArgs == {<<PyInt(1)>>}
DecoKwargs ==
    LET a == [key |-> <<"a">>, value |-> PyInt(1)]
        b == [key |-> <<"b">>, value |-> PyInt(2)]
    IN {<<>>, <<a, b>>, <<b, a>>}

\* keys_to_clear: up to MaxKeys of these keys.
MaxKeys == 2
ContextKeys ==
    LET u == {CachedResultKey, WithTimeoutKey(<<PyInt(1)>>, <<>>)}
    IN UNION {[1..n -> u] : n \in 0..MaxKeys}

NextDeco ==
    \/ \E args \in DecoArgs \cup {<<>>} : \E result \in Results :
         CachedResultCall(args, result)
    \/ CachedResultClear
    \/ \E args \in DecoArgs : \E kwargs \in DecoKwargs : \E result \in Results :
         WithTimeoutCall(args, kwargs, result)
    \/ \E keys \in ContextKeys : \E fails \in SUBSET (1..MaxKeys) : \E raises \in BOOLEAN :
         ContextRun(keys, fails, raises)
    \/ Tick

SpecDeco == Init /\ [][NextDeco]_vars

\* ----------------------------------------------------------------- claims
\* The key policy the claims are stated with: the list key of a kind is
\* "{kind}_list", the detail key of a record is "{kind}_{id}".
KeyFor(k) == <<k, "_", "list">>
KeyForId(k, pk) == <<k, "_">> \o pk

\* The key a read request looks up.
KeyOfRead(l) == IF l.op = "list" THEN KeyFor(l.kind) ELSE KeyForId(l.kind, l.pk)

IsRead(l) == l.op \in {"list", "retrieve"}

\* C1: a list or retrieve that finds its key present returns exactly the
\* cached payload, makes no provider call and leaves the cache as it was.
C1_HitReturnsCached ==
    [][(IsRead(last') /\ KeyOfRead(last') \in DOMAIN cache)
         => /\ last'.hit
            /\ last'.calls = 0
            /\ last'.status = 200
            /\ last'.resp = cache[KeyOfRead(last')].value
            /\ cache' = cache]_vars

C1_Witness ==
    /\ last.op = "retrieve" /\ last.kind = "passenger" /\ last.hit
    /\ last.resp.items # <<>>
    /\ KeyFor("user") \in DOMAIN cache

\* C2: a list or retrieve that misses and whose provider call succeeds made
\* exactly one provider call, and its key then holds the payload the caller
\* received, which is the provider's answer, with the default TTL.
C2_MissPopulates ==
    (IsRead(last) /\ ~last.hit /\ last.status = 200)
        => /\ last.calls = 1
           /\ KeyOfRead(last) \in DOMAIN cache
           /\ cache[KeyOfRead(last)] = [value |-> last.resp, ttl |-> CACHE_TTL]
           /\ last.resp = IF last.op = "list" THEN ListPayload(db, last.kind)
                          ELSE DetailPayload(db, last.kind, PkToId(db[last.kind], last.pk))

C2_Witness ==
    /\ last.op = "retrieve" /\ last.kind = "rider" /\ ~last.hit /\ last.status = 200
    /\ last.resp.items # <<>>

\* C3: a list(k) that follows an earlier list(k) with no write of kind k and
\* no expiry of the list key in between is a hit, makes no provider call and
\* returns the payload the earlier call returned.
C3_ListIdempotent ==
    [][\A k \in Kinds :
         (last'.op = "list" /\ last'.kind = k /\ snap[k] # <<>>)
            => /\ last'.hit
               /\ last'.calls = 0
               /\ last'.resp = snap[k][1]]_vars

\* A second list of the users, after other requests, repeats a non-empty answer.
C3_Witness ==
    /\ last.op = "list" /\ last.kind = "user" /\ last.hit
    /\ Len(last.resp.items) = 2
    /\ cache[KeyFor("user")].ttl = 1
    /\ snap["user"] = <<last.resp>>

\* C4: when update(k, i) has completed, the list key of k and the detail
\* key of (k, i) are absent, and a retrieve(k, i) that comes next is a miss
\* with a provider call.
C4_UpdateInvalidates ==
    [][/\ last'.op = "update"
          => /\ KeyFor(last'.kind) \notin DOMAIN cache'
             /\ KeyForId(last'.kind, last'.pk) \notin DOMAIN cache'
       /\ (last.op = "update" /\ last'.op = "retrieve"
             /\ last'.kind = last.kind /\ last'.pk = last.pk)
          => (~last'.hit /\ last'.calls = 1)]_vars

\* An update of a passenger has completed; its keys are absent while the
\* entries of the user kind are still there.
C4_Witness ==
    /\ last.op = "update" /\ last.kind = "passenger" /\ last.pk = <<"1">>
    /\ db["passenger"][1].data = 2
    /\ KeyFor("user") \in DOMAIN cache
    /\ KeyForId("user", <<"1">>) \in DOMAIN cache
    /\ KeyForId("passenger", <<"1">>) \notin DOMAIN cache

\* C5: the receiver's invalidation runs after the save and before the write
\* returns: an entry of the write's keys that was set before the save is in
\* the cache only while the write is between its save and its receiver, so
\* no read that starts after the write has returned can hit it.
C5_InvalidatedBeforeReturn ==
    stale # {} => (wr.pc = "signal" /\ stale \subseteq WriteKeys(wr))

\* The receiver has removed an entry that a read had set between the deletes
\* of perform_update and the save, and the write has not returned yet.
C5_Witness ==
    /\ wr.pc = "respond" /\ wr.op = "update"
    /\ SignalDetailKey(wr.kind, wr.id) \in wr.cleared
    /\ stale = {}

\* C6: every detail entry present holds the serialization of its record as
\* the provider has it.
C6_DetailEntriesCurrent ==
    \A k \in Kinds : \A i \in Ids :
        KeyForId(k, Format(PyInt(i))) \in DOMAIN cache
            => /\ i \in DOMAIN db[k]
               /\ cache[KeyForId(k, Format(PyInt(i)))].value = DetailPayload(db, k, i)

\* C7: after a create, update or delete of a record of kind k the list key
\* of k is absent and stays absent up to the next list(k), which is a miss
\* and returns the provider's current records of kind k.
IsWrite(l) == l.op \in {"create", "update", "destroy"}

C7_ListMissAfterWrite ==
    [][/\ IsWrite(last') => KeyFor(last'.kind) \notin DOMAIN cache'
       /\ \A k \in Kinds :
            KeyFor(k) \notin DOMAIN cache
               => \/ /\ last'.op = "list" /\ last'.kind = k
                     /\ ~last'.hit /\ last'.calls = 1
                     /\ last'.resp = ListPayload(db', k)
                  \/ /\ ~(last'.op = "list" /\ last'.kind = k)
                     /\ KeyFor(k) \notin DOMAIN cache']_vars

\* A list that misses although the list had been cached before the write.
C7_Witness ==
    /\ last.op = "list" /\ last.kind = "passenger" /\ ~last.hit
    /\ Len(last.resp.items) = 1
    /\ last.resp.items[1].data = 2

\* C8: when delete(k, i) has completed, the list key of k and the detail
\* key of (k, i) are absent, and every later retrieve(k, i) reports not-found.
Deleted(k, pk) ==
    \E i \in Ids : pk = Format(PyInt(i)) /\ i < nextId[k] /\ i \notin DOMAIN db[k]

C8_DeleteInvalidates ==
    [][/\ last'.op = "destroy"
          => /\ KeyFor(last'.kind) \notin DOMAIN cache'
             /\ KeyForId(last'.kind, last'.pk) \notin DOMAIN cache'
       /\ (last'.op = "retrieve" /\ Deleted(last'.kind, last'.pk))
          => (~last'.hit /\ last'.status = 404 /\ last'.resp = NoPayload)]_vars

C8_Witness ==
    /\ last.op = "retrieve" /\ last.status = 404
    /\ Deleted(last.kind, last.pk)
    /\ last.kind = "user"
    /\ cache # EmptyCache

\* C9: a create of a record of kind k removes the list key of k and changes
\* no other entry.
C9_CreateFrame ==
    [][last'.op = "create" => cache' = cache_delete(cache, KeyFor(last'.kind))]_vars

\* A create that left a detail entry and the list entry of another kind.
C9_Witness ==
    /\ last.op = "create" /\ last.kind = "passenger"
    /\ KeyFor("user") \in DOMAIN cache
    /\ KeyForId("user", <<"1">>) \in DOMAIN cache

\* C10: a retrieve whose provider call fails reports the failure, leaves the
\* cache unchanged and its key absent.
C10_FailureNotCached ==
    [][(last'.op = "retrieve" /\ last'.status # 200)
         => /\ last'.status = 404
            /\ ~last'.hit
            /\ last'.resp = NoPayload
            /\ cache' = cache
            /\ KeyOfRead(last') \notin DOMAIN cache']_vars

C10_Witness ==
    /\ last.op = "retrieve" /\ last.status = 404 /\ last.pk = <<"2">>
    /\ last.kind = "user"
    /\ KeyForId("user", <<"1">>) \in DOMAIN cache

\* C11: a list or retrieve during which cache.get or cache.set fails answers
\* as a miss does: one provider call, and the provider's payload (or its
\* not-found) as the response; the request does not fail because of the cache.
C11_CacheDownIsMiss ==
    (IsRead(last) /\ last.fault # "none")
        => LET f == IF last.op = "list" THEN FetchList(db, last.kind)
                    ELSE FetchDetail(db, last.kind, last.pk)
           IN /\ last.calls = 1
              /\ last.status = (IF f.ok THEN 200 ELSE 404)
              /\ last.resp = f.data

\* C12: a write during which a cache.delete of its invalidation fails is not
\* aborted: it completes with its success status and the record provider has
\* the change.
C12_DeleteFailureKeepsWrite ==
    (IsWrite(last) /\ last.fault # "none")
        => /\ last.status \in {200, 201, 204}
           /\ last.op \in {"create", "update"}
                 => PkToId(db[last.kind], last.pk) # 0
           /\ last.op = "destroy" => PkToId(db[last.kind], last.pk) = 0

\* C13: a read that misses and fetches the record of (k, i) before the save
\* of a write of (k, i), and sets its key after the receiver of that write
\* has run, leaves the payload it fetched in the cache, and no step of the
\* write is left to remove it.
C13_StaleSetAfterInvalidation ==
    [][(rd.pc = "set" /\ rd.old /\ wr.pc \in {"respond", "idle"} /\ rd'.pc = "idle")
         => /\ ReadKey(rd) \in DOMAIN cache'
            /\ cache'[ReadKey(rd)].value = rd.data
            /\ ReadKey(rd) \notin stale']_vars

\* Both requests have finished, and the detail entry of a user holds a
\* payload that is not the one of the record as updated.
C13_Witness ==
    /\ rd = NoRead /\ wr = NoWrite
    /\ \E i \in DOMAIN db["user"] :
          /\ KeyForId("user", Format(PyInt(i))) \in DOMAIN cache
          /\ cache[KeyForId("user", Format(PyInt(i)))].value # DetailPayload(db, "user", i)

\* C14: two reads of the same key that both miss, with no write between the
\* first cache.get and the last cache.set, both return the same payload, which
\* each fetched from the provider, and the key holds that payload.
C14_DoubleMissSamePayload ==
    (/\ rds[1].pc = "done" /\ rds[2].pc = "done"
     /\ ReadKey(rds[1]) = ReadKey(rds[2])
     /\ ~rds[1].hit /\ ~rds[2].hit
     /\ ~rds[1].written /\ ~rds[2].written)
        => /\ rds[1].data = rds[2].data
           /\ ReadKey(rds[1]) \in DOMAIN cache
           /\ cache[ReadKey(rds[1])].value = rds[1].data

\* Both reads of the list of two users missed and have returned.
C14_Witness ==
    /\ rds[1].pc = "done" /\ rds[2].pc = "done"
    /\ rds[1].op = "list" /\ rds[2].op = "list"
    /\ rds[1].kind = "user" /\ rds[2].kind = "user"
    /\ ~rds[1].hit /\ ~rds[2].hit
    /\ ~rds[1].written /\ ~rds[2].written
    /\ Len(rds[1].data.items) = 2

\* C15: every entry that list, retrieve or warm_cache sets has CACHE_TTL
\* units of time to live; each unit of time that passes takes one from every
\* entry, whatever its value, and removes the entries that had one left: an
\* entry is absent CACHE_TTL units after it was set, unless set again.
C15_ExpiresAfterTTL ==
    [][/\ \A key \in DOMAIN cache' : cache'[key].ttl \in 1..CACHE_TTL
       /\ last'.op # "tick"
            => \A key \in DOMAIN cache' :
                 (key \notin DOMAIN cache \/ cache'[key] # cache[key])
                    => /\ last'.op \in {"list", "retrieve", "warm"}
                       /\ cache'[key].ttl = CACHE_TTL
       /\ last'.op = "tick"
            => /\ \A key \in DOMAIN cache : cache[key].ttl = 1 => key \notin DOMAIN cache'
               /\ \A key \in DOMAIN cache' :
                     /\ key \in DOMAIN cache
                     /\ cache'[key].value = cache[key].value
                     /\ cache'[key].ttl = cache[key].ttl - 1]_vars

\* A unit of time has passed since the list entry and a detail entry of the
\* users were set, and they are still there.
C15_Witness ==
    /\ last.op = "tick"
    /\ KeyFor("user") \in DOMAIN cache /\ cache[KeyFor("user")].ttl = CACHE_TTL - 1
    /\ KeyForId("user", <<"1">>) \in DOMAIN cache
    /\ cache[KeyForId("user", <<"1">>)].ttl = CACHE_TTL - 1
    /\ KeyFor("rider") \notin DOMAIN cache

\* C16: the key a view computes for a kind is the list key of the kind when
\* no identifier is passed, and "{kind}_{id}" for every identifier that is
\* passed, 0 and the empty string included.
C16_KeyPolicy ==
    (kres # <<>> /\ kreq.fn = "view")
        => kres = IF kreq.identifier = PyNone THEN KeyFor(kreq.kind)
                  ELSE KeyForId(kreq.kind, Format(kreq.identifier))

\* C17: no key computed for a kind, by a view, a receiver or the warmer, is
\* a key that any of them computes for another kind, whatever the identifiers.
C17_NoCollisionAcrossKinds ==
    kres # <<>>
        => \A q \in KeyCalls : q.kind # kreq.kind => KeyOf(q) # kres

\* The detail key of a rider has been computed by a receiver.
C17_Witness ==
    /\ kreq = [fn |-> "signal", kind |-> "rider", identifier |-> PyInt(1)]
    /\ kres = <<"rider", "_", "1">>

\* C18: from an empty cache, create a user, list the users, retrieve that
\* user, retrieve it again: the create leaves the list key absent; the list
\* makes one provider call and the list key then holds its answer; the first
\* retrieve makes one provider call and the detail key of the user then holds
\* its answer; the second retrieve is a hit with no provider call.
C18_CreateListRetrieveTwice ==
    /\ last.scen.n = 1
          => (last.op = "create" /\ KeyFor("user") \notin DOMAIN cache)
    /\ last.scen.n = 2
          => /\ last.op = "list" /\ ~last.hit /\ last.calls = 1
             /\ KeyFor("user") \in DOMAIN cache
             /\ cache[KeyFor("user")].value = last.resp
             /\ last.resp = ListPayload(db, "user")
    /\ last.scen.n = 3
          => /\ last.op = "retrieve" /\ ~last.hit /\ last.calls = 1
             /\ last.status = 200
             /\ KeyForId("user", last.scen.pk) \in DOMAIN cache
             /\ cache[KeyForId("user", last.scen.pk)].value = last.resp
    /\ last.scen.n = 4
          => /\ last.op = "retrieve" /\ last.hit /\ last.calls = 0
             /\ last.status = 200
             /\ last.resp = DetailPayload(db, "user", PkToId(db["user"], last.scen.pk))

\* The four requests have been made, and the user is a rider.
C18_Witness ==
    /\ last.scen.n = 4
    /\ last.resp.items # <<>>
    /\ last.resp.items[1].user_type = "rider"

\* C19: when warm_cache has run to its end, the list key of every kind and
\* the detail key of every record are present; as long as only reads follow
\* (no write, and no entry has expired), every list and every retrieve of a
\* record that exists is a hit with no provider call.
C19_WarmThenRead ==
    [][/\ last'.op = "warm"
            => \A k \in Kinds :
                 /\ KeyFor(k) \in DOMAIN cache'
                 /\ \A i \in DOMAIN db[k] : KeyForId(k, Format(PyInt(i))) \in DOMAIN cache'
       /\ (/\ last.warmed /\ IsRead(last')
           /\ last'.op = "retrieve" => PkToId(db[last'.kind], last'.pk) # 0)
            => (last'.hit /\ last'.calls = 0 /\ last'.status = 200)]_vars

\* After the warmer a list and then a retrieve of a passenger were made, and
\* the retrieve was a hit.
C19_Witness ==
    /\ last.warmed /\ last.op = "retrieve" /\ last.kind = "passenger"
    /\ last.hit /\ last.resp.items # <<>>
    /\ snap["passenger"] # <<>>

\* C20: a run of warm_cache in which one cache.set fails goes on to its end:
\* every other entry is set, the command reports the count of the items it
\* did cache, and it does not exit with an error.
C20_WarmerContinues ==
    (last.op = "warm" /\ last.fault # "none")
        => LET es == WarmEntries(db)
           IN /\ last.status = 0
              /\ last.calls = total_items(db) - 1
              /\ \A n \in 1..Len(es) :
                    es[n].key # last.pk => es[n].key \in DOMAIN cache

\* C21: when a run of warm_cache with --clear has come to its end and no
\* write was made meanwhile, the cache holds the three list keys, the detail
\* key of every record, and no other key.
C21_ClearThenExactKeys ==
    (wm.pc = "done" /\ wm.clear /\ ~wm.written)
        => DOMAIN cache =
             {KeyFor(k) : k \in Kinds}
                \cup UNION {{KeyForId(k, Format(PyInt(i))) : i \in DOMAIN db[k]} : k \in Kinds}

\* A run with --clear has ended with no write meanwhile; user 1 had been
\* deleted before it, user 2 is there.
C21_Witness ==
    /\ wm.pc = "done" /\ wm.clear /\ ~wm.written
    /\ DOMAIN db["user"] = {2}
    /\ KeyForId("user", <<"2">>) \in DOMAIN cache

\* C22: a run of warm_cache leaves every entry it populates with the
\* provider's current payload and the full time to live, whatever was there
\* before; a second run right after the first, with no write and no expiry
\* between them, leaves the cache as the first run left it.
C22_WarmIdempotent ==
    [][last'.op = "warm"
         => /\ \A n \in 1..Len(WarmEntries(db)) :
                 LET e == WarmEntries(db)[n]
                 IN /\ e.key \in DOMAIN cache'
                    /\ cache'[e.key] = [value |-> e.value, ttl |-> CACHE_TTL]
            /\ last.op = "warm" => cache' = cache]_vars

\* The warmer has run with two users; a run that follows at once ends in
\* this same state.
C22_Witness ==
    /\ last.op = "warm"
    /\ DOMAIN db["user"] = {1, 2}
    /\ cache[KeyFor("user")] = [value |-> ListPayload(db, "user"), ttl |-> CACHE_TTL]
    /\ Len(cache[KeyFor("user")].value.items) = 2

\* The keyword arguments of a call in the opposite order.
Reversed(q) == [n \in 1..Len(q) |-> q[Len(q) + 1 - n]]

\* C23: the key cache_key_builder returns is the prefix, the positional
\* arguments and the values of the keyword arguments, these in the sorted
\* order of their names, joined with '_'; the same keyword arguments passed
\* in another order give the same key.
C23_BuilderJoinsValues ==
    kres # <<>>
        => LET keys == SortedKeys(kreq.kwargs)
           IN /\ kres = Join(<<kreq.prefix>>
                             \o [n \in 1..Len(kreq.args) |-> Format(kreq.args[n])]
                             \o [n \in 1..Len(keys) |->
                                   Format(KwValue(kreq.kwargs, keys[n]))])
              /\ kres = cache_key_builder(kreq.prefix, kreq.args, Reversed(kreq.kwargs))

\* C24: when a CacheContext block has been left, by return or by exception,
\* every key of keys_to_clear whose delete did not fail is absent, every
\* delete that failed has been logged, in order, and none of them stopped the
\* deletes after it; the caller sees an exception exactly when the block
\* raised one.
C24_ContextClearsAll ==
    last.op = "context"
        => LET c == last.call
           IN /\ \A n \in 1..Len(c.keys) :
                   n \notin c.fails => c.keys[n] \notin DOMAIN cache
              /\ Len(c.log) = Cardinality(c.fails)
              /\ \A n \in c.fails :
                   c.log[Cardinality({m \in c.fails : m <= n})] = c.keys[n]
              /\ last.status = (IF c.raises THEN 1 ELSE 0)

\* A block that raised, with two keys of which the first could not be
\* deleted and is still cached.
C24_Witness ==
    /\ last.op = "context" /\ last.call.raises /\ last.status = 1
    /\ Len(last.call.keys) = 2 /\ last.call.fails = {1}
    /\ last.call.keys[1] # last.call.keys[2]
    /\ last.call.keys[1] \in DOMAIN cache
    /\ last.call.log = <<last.call.keys[1]>>

\* C29: while the entry of a function wrapped by cached_result is present, a
\* call with any arguments does not execute the function and returns the
\* value stored.
C29_CachedResultByName ==
    [][(last'.op = "cached_result" /\ CachedResultKey \in DOMAIN cache)
         => /\ last'.calls = 0
            /\ last'.resp = cache[CachedResultKey].value
            /\ cache' = cache]_vars

\* The keyword arguments of two calls are the same arguments.
SameKwargs(p, q) == {p[n] : n \in 1..Len(p)} = {q[n] : n \in 1..Len(q)}

\* C30: a call of a function wrapped by cache_with_timeout, made while the
\* entry of an earlier call with the same arguments is present, does not
\* execute the function and returns the value stored by that call, None
\* included.
C30_WithTimeoutOnce ==
    [][last'.op = "cache_with_timeout"
         => \A kw \in DecoKwargs :
              (/\ SameKwargs(kw, last'.call.kwargs)
               /\ WithTimeoutKey(last'.call.args, kw) \in DOMAIN cache)
                 => /\ last'.calls = 0
                    /\ last'.resp = cache[WithTimeoutKey(last'.call.args, kw)].value]_vars

C26_NestedUserCurrent ==
    \A key \in DOMAIN cache :
        key[1] \in {"passenger", "rider"}
            => \A n \in 1..Len(cache[key].value.items) :
                 LET u == cache[key].value.items[n].user[1]
                 IN u.id \in DOMAIN db["user"] => u = UserSerializer(db, u.id)

\* C27: a retrieve never answers with a payload that list has cached, and a
\* list never with one that retrieve has cached.
C27_DetailKeyNotListKey ==
    /\ (last.op = "retrieve" /\ last.hit) => ~last.resp.many
    /\ (last.op = "list" /\ last.hit) => last.resp.many

\* C28: when a run of warm_cache during which users were written has come
\* to its end, the user entries in the cache, list and detail, hold what the
\* provider has now and not what the warmer read before the write.
C28_WarmerNotStale ==
    (wm.pc = "done" /\ wm.written)
        => /\ KeyFor("user") \in DOMAIN cache
                => cache[KeyFor("user")].value = ListPayload(db, "user")
           /\ \A i \in DOMAIN db["user"] :
                KeyForId("user", Format(PyInt(i))) \in DOMAIN cache
                   => cache[KeyForId("user", Format(PyInt(i)))].value
                         = DetailPayload(db, "user", i)

====
